---- MODULE Spec2Model ----
(***************************************************************************)
(* The caching request layer of the news gateway                          *)
(* (src/services/news_service.py, class NewsService).                     *)
(*                                                                         *)
(* One NewsService instance is shared by every request of the process.    *)
(* A request runs synchronously except at the single await of             *)
(* _make_request (the upstream GET), so a request is two atomic steps:    *)
(* CacheMiss (entry up to the await; CacheHit is a whole call) and        *)
(* Respond / Fail (from the await to the return, post-filter included).   *)
(* The clock is discrete; it advances between steps (Tick), never inside  *)
(* a synchronous section.                                                 *)
(*                                                                         *)
(* Python str is a sequence of one-character strings, a dict is a record  *)
(* (json documents) or a sequence of <<name, value>> pairs in insertion   *)
(* order (request parameters).                                            *)
(***************************************************************************)
EXTENDS Integers, Sequences, FiniteSets, TLC

\* ------------------------------------------------------------- bounds
NProcs == 2      \* requests that may be pending at the upstream at once
MaxTime == 2     \* the clock runs 0..MaxTime
MaxHits == 1     \* cap of cache_hits
MaxMisses == 3   \* cap of cache_misses
MaxArticles == 4 \* articles of a search result handed to a filter
MaxCount == 2    \* the counts 1..MaxCount (and 100) handed to find_by_author

\* TTLCache(maxsize=1000, ttl=600), scaled: 2 entries, 2 ticks of the clock
maxsize == 2
ttl == 2

\* ------------------------------------------------------------- strings
None == <<"None">>

\* str.lower() on the alphabet the model uses
LowerChar(ch) ==
  CASE ch = "A" -> "a"
    [] ch = "B" -> "b"
    [] ch = "C" -> "c"
    [] OTHER -> ch

lower(s) == [i \in 1..Len(s) |-> LowerChar(s[i])]

\* `sub in s` of two str
In(sub, s) ==
  \E i \in 0..(Len(s) - Len(sub)) :
    \A j \in 1..Len(sub) : s[i + j] = sub[j]

\* f'"{title}"'
Quoted(s) == <<"\"">> \o s \o <<"\"">>

\* ------------------------------------------------------------- json.dumps
Digit(d) ==
  CASE d = 0 -> "0" [] d = 1 -> "1" [] d = 2 -> "2" [] d = 3 -> "3"
    [] d = 4 -> "4" [] d = 5 -> "5" [] d = 6 -> "6" [] d = 7 -> "7"
    [] d = 8 -> "8" [] d = 9 -> "9"

RECURSIVE Digits(_)
Digits(n) == IF n < 10 THEN <<Digit(n)>> ELSE Digits(n \div 10) \o <<Digit(n % 10)>>

\* faulty variant: a string written without escapes
Escaped_raw(s) == s

RECURSIVE Escaped(_)
Escaped(s) ==
  IF s = <<>> THEN <<>>
  ELSE (IF Head(s) \in {"\"", "\\"} THEN <<"\\", Head(s)>> ELSE <<Head(s)>>)
       \o Escaped(Tail(s))

\* a parameter value is an int, [int |-> n], or a str, [str |-> s]
PyInt(n) == [int |-> n]
PyStr(s) == [str |-> s]

JsonValue(v) ==
  IF "int" \in DOMAIN v THEN Digits(v.int) ELSE <<"\"">> \o Escaped(v.str) \o <<"\"">>

\* ------------------------------------------------------------- cache key
\* the order of str on the parameter names that occur
NameOrder == <<"apikey", "category", "country", "lang", "max", "q", "sortby">>

NameRank(name) == CHOOSE i \in 1..Len(NameOrder) : NameOrder[i] = name

RECURSIVE Insert(_, _)
Insert(item, sorted) ==
  IF sorted = <<>> THEN <<item>>
  ELSE IF NameRank(item[1]) < NameRank(Head(sorted)[1])
       THEN <<item>> \o sorted
       ELSE <<Head(sorted)>> \o Insert(item, Tail(sorted))

\* faulty variant: the items left in insertion order
SortedItems_unsorted(params) == params

\* sorted(params.items())
RECURSIVE SortedItems(_)
SortedItems(params) ==
  IF params = <<>> THEN <<>>
  ELSE Insert(Head(params), SortedItems(Tail(params)))

\* a str as one string of the model
RECURSIVE Join(_)
Join(s) == IF s = <<>> THEN "" ELSE Head(s) \o Join(Tail(s))

\* the members of a JSON object as json.dumps writes them: "name": value,
\* separated by ", "
RECURSIVE Members(_)
Members(items) ==
  IF items = <<>> THEN ""
  ELSE "\"" \o Head(items)[1] \o "\": " \o Join(JsonValue(Head(items)[2]))
       \o (IF Tail(items) = <<>> THEN "" ELSE ", ")
       \o Members(Tail(items))

\* json.dumps(d, sort_keys=True) of a dict of parameters
json_dumps(d) == "{" \o Members(SortedItems(d)) \o "}"

\* f"{endpoint}_{json.dumps(sorted_params, sort_keys=True)}"
key_string(endpoint, params) ==
  LET sorted_params == SortedItems(params)
  IN  endpoint \o "_" \o json_dumps(sorted_params)

\* hashlib.md5(...).hexdigest(): a digest is the tag of what was hashed
\* (collision free)
md5(s) == [md5 |-> s]

_generate_cache_key(endpoint, params) == md5(key_string(endpoint, params))

\* ------------------------------------------------------------- TTLCache
\* cachetools.TTLCache as NewsService uses it. The cache is the sequence of
\* its entries in the order of the cache's links, least recently used first.
\* An entry: key, value, expires; raw, inserted and used are history fields
\* (the value as __setitem__ received it, the clock at the entry's
\* __setitem__, and the clock at its last __setitem__ or __getitem__).
HasKey(c, k) == \E i \in 1..Len(c) : c[i].key = k

Entry(c, k) == c[CHOOSE i \in 1..Len(c) : c[i].key = k]

Without(c, k) == SelectSeq(c, LAMBDA e : e.key # k)

\* expire(time): drops every entry with expires <= time
TTLCache_expire(c, t) == SelectSeq(c, LAMBDA e : t < e.expires)

\* faulty variant: the expiry test inverted
TTLCache_contains_inverted(c, k, t) == HasKey(c, k) /\ ~(t < Entry(c, k).expires)

\* faulty variant: an entry still found at the instant it expires
TTLCache_contains_late(c, k, t) == HasKey(c, k) /\ t <= Entry(c, k).expires

\* key in cache
TTLCache_contains(c, k, t) == HasKey(c, k) /\ t < Entry(c, k).expires

\* cache[key] of a key that is in the cache: the value
TTLCache_value(c, k) == Entry(c, k).value

\* faulty variant: a read that restarts the entry's time to live
TTLCache_getitem_refreshing(c, k, t) ==
  Without(c, k) \o <<[Entry(c, k) EXCEPT !.used = t, !.expires = t + ttl]>>

\* faulty variant: a read that leaves the key's link where it is
TTLCache_getitem_in_place(c, k, t) ==
  [i \in 1..Len(c) |-> IF c[i].key = k THEN [c[i] EXCEPT !.used = t] ELSE c[i]]

\* cache[key]: the read moves the key's link to the end (__getlink)
TTLCache_getitem(c, k, t) ==
  Without(c, k) \o <<[Entry(c, k) EXCEPT !.used = t]>>

\* popitem(): expire, then remove the first link
TTLCache_popitem(c, t) == Tail(TTLCache_expire(c, t))

\* faulty variant: a loop that stops one entry late
MakeRoom_late(c, t) ==
  IF Len(c) + 1 > maxsize + 1 THEN TTLCache_popitem(c, t) ELSE c

\* Cache.__setitem__'s loop: while currsize + size > maxsize: popitem()
RECURSIVE MakeRoom(_, _)
MakeRoom(c, t) ==
  IF Len(c) + 1 > maxsize THEN MakeRoom(TTLCache_popitem(c, t), t) ELSE c

\* cache[key] = value
TTLCache_setitem(c, k, v, t) ==
  LET live == TTLCache_expire(c, t)
      room == IF HasKey(live, k) THEN live ELSE MakeRoom(live, t)
  IN  Without(room, k) \o
        <<[key |-> k, value |-> v, expires |-> t + ttl,
           raw |-> v, inserted |-> t, used |-> t]>>

\* len(cache): the entries that have not expired
TTLCache_len(c, t) == Len(TTLCache_expire(c, t))

\* cache.clear()
TTLCache_clear(c) == <<>>

\* ------------------------------------------------------------- documents
\* A JSON document: an object with the members named in names (the other
\* fields then hold defaults), or, with is_object FALSE, a JSON array.
Article(title, has_source, name) ==
  [title |-> title, has_source |-> has_source, name |-> name]

Object(totalArticles, articles) ==
  [is_object |-> TRUE, names |-> {"totalArticles", "articles"},
   totalArticles |-> totalArticles, articles |-> articles, from_cache |-> FALSE]

JsonArray ==
  [is_object |-> FALSE, names |-> {}, totalArticles |-> 0, articles |-> <<>>,
   from_cache |-> FALSE]

ArtAB == Article(<<"A", "b">>, TRUE, <<"a", "B", "c">>)
ArtABC == Article(<<"c", "a", "B">>, TRUE, None)
ArtC == Article(<<"c">>, FALSE, None)
ArtBA == Article(<<"b", "a">>, TRUE, <<"A", "b">>)

BodyA == Object(5, <<ArtAB, ArtC, ArtABC, ArtBA>>)

\* what the upstream may answer with status 2xx
Bodies == {BodyA, JsonArray}

\* ------------------------------------------------------------- operations
\* A call of one of the four operations. text is the query, title, author or
\* category; count and exact are used by the operations that take them.
Query == <<"a", "b">>

Calls ==
  {[op |-> "get_top_headlines", text |-> None, count |-> 10, exact |-> FALSE],
   [op |-> "search_articles", text |-> Query, count |-> 50, exact |-> FALSE],
   [op |-> "find_by_title", text |-> Query, count |-> 0, exact |-> FALSE],
   [op |-> "find_by_author", text |-> Query, count |-> 2, exact |-> FALSE]}

Min(a, b) == IF a < b THEN a ELSE b

en == <<"e", "n">>
us == <<"u", "s">>
relevance == <<"r", "e", "l", "e", "v", "a", "n", "c", "e">>

\* faulty variant: the category always sent
get_top_headlines_params_always(count, lang, country, category) ==
  << <<"max", PyInt(Min(count, 100))>>, <<"country", PyStr(country)>>,
     <<"lang", PyStr(lang)>>, <<"category", PyStr(category)>> >>

\* get_top_headlines: the params dict, in insertion order
get_top_headlines_params(count, lang, country, category) ==
  << <<"max", PyInt(Min(count, 100))>>, <<"country", PyStr(country)>>,
     <<"lang", PyStr(lang)>> >>
  \o (IF category # None /\ category # <<>>
      THEN << <<"category", PyStr(category)>> >> ELSE <<>>)

\* search_articles: the params dict, in insertion order
search_articles_params(query, count, language, country, sort_by) ==
  << <<"q", PyStr(query)>>, <<"max", PyInt(Min(count, 100))>>,
     <<"lang", PyStr(language)>>, <<"country", PyStr(country)>>,
     <<"sortby", PyStr(sort_by)>> >>

Endpoint(c) == IF c.op = "get_top_headlines" THEN "top-headlines" ELSE "search"

\* the params each operation hands to _make_request
Params(c) ==
  CASE c.op = "get_top_headlines" ->
         get_top_headlines_params(c.count, en, us, c.text)
    [] c.op = "search_articles" ->
         search_articles_params(c.text, c.count, en, us, relevance)
    [] c.op = "find_by_title" ->
         search_articles_params(IF c.exact THEN Quoted(c.text) ELSE c.text,
                                50, en, us, relevance)
    [] c.op = "find_by_author" ->
         search_articles_params(c.text, 100, en, us, relevance)

KeyTable == [c \in Calls |-> _generate_cache_key(Endpoint(c), Params(c))]

KeyOf(c) == KeyTable[c]

\* faulty variant: a comparison that minds the case of the title asked for
TitleMatch_case_sensitive(article, title, exact) ==
  IF exact THEN lower(article.title) = title
  ELSE In(title, lower(article.title))

\* find_by_title: the loop over result["articles"]
TitleMatch(article, title, exact) ==
  IF exact THEN lower(article.title) = lower(title)
  ELSE In(lower(title), lower(article.title))

find_by_title_filter(result, title, exact) ==
  IF "articles" \in result.names
  THEN LET filtered_articles ==
             SelectSeq(result.articles, LAMBDA a : TitleMatch(a, title, exact))
       IN  [result EXCEPT !.articles = filtered_articles,
                          !.totalArticles = Len(filtered_articles),
                          !.names = @ \cup {"totalArticles"}]
  ELSE result

\* find_by_author: the loop over result["articles"], with its break
AuthorMatch(article, author) ==
  /\ article.has_source
  /\ article.name # None /\ article.name # <<>>
  /\ In(lower(author), lower(article.name))

\* faulty variant: a loop without the break
AuthorLoop_unbroken(articles, author, count, filtered_articles) ==
  filtered_articles \o SelectSeq(articles, LAMBDA a : AuthorMatch(a, author))

RECURSIVE AuthorLoop(_, _, _, _)
AuthorLoop(articles, author, count, filtered_articles) ==
  IF articles = <<>> THEN filtered_articles
  ELSE IF AuthorMatch(Head(articles), author)
       THEN LET grown == Append(filtered_articles, Head(articles))
            IN  IF Len(grown) >= count THEN grown
                ELSE AuthorLoop(Tail(articles), author, count, grown)
       ELSE AuthorLoop(Tail(articles), author, count, filtered_articles)

find_by_author_filter(result, author, count) ==
  IF "articles" \in result.names
  THEN LET filtered_articles == AuthorLoop(result.articles, author, count, <<>>)
       IN  [result EXCEPT !.articles = filtered_articles,
                          !.totalArticles = Len(filtered_articles),
                          !.names = @ \cup {"totalArticles"}]
  ELSE result

\* what the operation does with the result of its _make_request
PostFilter(c, result) ==
  CASE c.op = "find_by_title" -> find_by_title_filter(result, c.text, c.exact)
    [] c.op = "find_by_author" -> find_by_author_filter(result, c.text, c.count)
    [] OTHER -> result

\* faulty variant: data["from_cache"] = flag; return data
Annotated_in_place(data, flag) ==
  [doc |-> [data EXCEPT !.names = @ \cup {"from_cache"}, !.from_cache = flag],
   shared |-> TRUE]

\* {**data, "from_cache": flag}: a new dict; shared tells whether the dict
\* returned is the very object the cache holds
Annotated(data, flag) ==
  [doc |-> [data EXCEPT !.names = @ \cup {"from_cache"}, !.from_cache = flag],
   shared |-> FALSE]

\* the cache after the caller assigned to members of the dict it was returned
AfterCallerWrites(c, k, r, final) ==
  IF r.shared /\ HasKey(c, k)
  THEN [i \in 1..Len(c) |-> IF c[i].key = k THEN [c[i] EXCEPT !.value = final] ELSE c[i]]
  ELSE c

\* ------------------------------------------------------------- state
VARIABLES
  now,            \* the clock of the cache (time.monotonic)
  cache,          \* self.cache
  cache_hits,     \* self.cache_hits
  cache_misses,   \* self.cache_misses
  pending,        \* per call: how many requests of it are suspended at the await
  ret,            \* what the latest step returned (or raised) to a request's caller
  stats,          \* what the latest step returned from get_cache_stats
  ev,             \* the latest step of the service
  evals,          \* the evaluations made of the service's pure functions
  since_clear     \* history: what happened since the last clear_cache

vars == <<now, cache, cache_hits, cache_misses, pending, ret, stats, ev, evals, since_clear>>

NoKey == md5("")

RECURSIVE Total(_, _)
Total(f, S) ==
  IF S = {} THEN 0
  ELSE LET x == CHOOSE y \in S : TRUE IN f[x] + Total(f, S \ {x})

\* the number of requests suspended at the await
InFlight == Total(pending, Calls)

NoRet == [returned |-> FALSE, ok |-> FALSE, doc |-> JsonArray, error |-> ""]

Returned(doc) == [returned |-> TRUE, ok |-> TRUE, doc |-> doc, error |-> ""]

Raised(error) == [returned |-> TRUE, ok |-> FALSE, doc |-> JsonArray, error |-> error]

NoStats == [taken |-> FALSE, keys |-> 0, hits |-> 0, misses |-> 0, hit_rate |-> 0, cache_size |-> 0]

\* the latest step: its kind, the operation called and its cache key, the
\* number of upstream GETs the step sent, the keys the step removed from the
\* cache before their expiry, and whether it directly follows a clear_cache
Event(kind, op, key, sent, evicted) ==
  [kind |-> kind, op |-> op, key |-> key, sent |-> sent, evicted |-> evicted,
   after_clear |-> (ev.kind = "clear")]

\* since the last clear_cache: the upstream calls that completed successfully
\* (a 2xx response whose body was parsed), and the responses returned to a
\* caller with from_cache = true
Nothing == [completed |-> 0, from_cache_true |-> 0]

\* the keys that a store at time t pushes out although they have not expired
Evicted(c, c2, t) ==
  {c[i].key : i \in {j \in 1..Len(c) : t < c[j].expires /\ ~HasKey(c2, c[j].key)}}

Init ==
  /\ now = 0
  /\ cache = <<>>
  /\ cache_hits = 0
  /\ cache_misses = 0
  /\ pending = [c \in Calls |-> 0]
  /\ ret = NoRet
  /\ stats = NoStats
  /\ ev = [kind |-> "init", op |-> "", key |-> NoKey, sent |-> 0, evicted |-> {},
           after_clear |-> FALSE]
  /\ evals = <<>>
  /\ since_clear = Nothing

\* ------------------------------------------------------------- _make_request
\* A call that finds its key in the cache: lines 31-38, then the operation's
\* post-filter. {**cached_data, ...} raises TypeError when the cached document
\* is no mapping.
CacheHit(c) ==
  LET cache_key == KeyOf(c)
      cached_data == TTLCache_value(cache, cache_key)
      read == TTLCache_getitem(cache, cache_key, now)
      r == Annotated(cached_data, TRUE)
      result == PostFilter(c, r.doc)
  IN  /\ cache_hits < MaxHits
      /\ cache_hits' = cache_hits + 1
      /\ TTLCache_contains(cache, cache_key, now)
      /\ InFlight < NProcs
      /\ IF cached_data.is_object
         THEN /\ cache' = AfterCallerWrites(read, cache_key, r, result)
              /\ ret' = Returned(result)
              /\ ev' = Event("hit", c.op, cache_key, 0, {})
              /\ since_clear' = [since_clear EXCEPT !.from_cache_true = @ + 1]
         ELSE /\ cache' = read
              /\ ret' = Raised("'list' object is not a mapping")
              /\ ev' = Event("hit_raised", c.op, cache_key, 0, {})
              /\ since_clear' = since_clear
      /\ stats' = NoStats
      /\ UNCHANGED <<now, cache_misses, pending, evals>>

\* A call that does not find its key: lines 31-48, up to the await; the GET
\* is on its way
CacheMiss(c) ==
  LET cache_key == KeyOf(c)
  IN  /\ pending' = [pending EXCEPT ![c] = @ + 1]
      /\ ~TTLCache_contains(cache, cache_key, now)
      /\ InFlight < NProcs
      /\ cache_misses + InFlight < MaxMisses
      /\ ret' = NoRet
      /\ stats' = NoStats
      /\ ev' = Event("request", c.op, cache_key, 1, {})
      /\ UNCHANGED <<now, cache, cache_hits, cache_misses, evals, since_clear>>

\* A failure of the upstream call of a pending call is what lines 45-50
\* raise: httpx.HTTPStatusError (a non-2xx status, with the response's body),
\* httpx.RequestError (a transport error) or another exception (a 2xx body
\* that is not JSON). The body of an error response: JSON or not, and when
\* it is a JSON object, its "message" member if it has one.
ErrorBody(is_json, has_message, message) ==
  [is_json |-> is_json, has_message |-> has_message, message |-> message]

HTTPStatusError(status_code, body) ==
  [kind |-> "HTTPStatusError", status_code |-> status_code, body |-> body, text |-> ""]

RequestError(text) ==
  [kind |-> "RequestError", status_code |-> 0, body |-> ErrorBody(FALSE, FALSE, ""), text |-> text]

OtherError(text) ==
  [kind |-> "Exception", status_code |-> 0, body |-> ErrorBody(FALSE, FALSE, ""), text |-> text]

Failures ==
  {HTTPStatusError(429, ErrorBody(TRUE, TRUE, "rate limited")),
   HTTPStatusError(500, ErrorBody(FALSE, FALSE, "")),
   RequestError("timed out")}

\* the message of the Exception that lines 59-70 raise. e.response.json()
\* raises on a body that is not JSON, and the bare except leaves error_msg
\* without a detail.
error_msg(failure) ==
  CASE failure.kind = "HTTPStatusError" ->
         "GNews API Error: " \o Join(Digits(failure.status_code))
           \o (IF failure.body.is_json
               THEN " - " \o (IF failure.body.has_message
                              THEN failure.body.message ELSE "Unknown error")
               ELSE "")
    [] failure.kind = "RequestError" ->
         "Network error: Unable to reach GNews API - " \o failure.text
    [] OTHER -> "Request error: " \o failure.text

\* The upstream answers a pending call with 2xx and a JSON body: lines 49-57,
\* then the operation's post-filter. {**data, ...} raises TypeError when the
\* body is no mapping, after the store and the count; lines 69-70 turn it into
\* an Exception.
Respond(c, data) ==
  LET cache_key == KeyOf(c)
      stored == TTLCache_setitem(cache, cache_key, data, now)
      r == Annotated(data, FALSE)
      result == PostFilter(c, r.doc)
  IN  /\ pending[c] > 0
      /\ cache_misses' = cache_misses + 1
      /\ IF data.is_object
         THEN /\ cache' = AfterCallerWrites(stored, cache_key, r, result)
              /\ ret' = Returned(result)
              /\ ev' = Event("miss", c.op, cache_key, 0, Evicted(cache, stored, now))
         ELSE /\ cache' = stored
              /\ ret' = Raised(error_msg(OtherError("'list' object is not a mapping")))
              /\ ev' = Event("miss_raised", c.op, cache_key, 0, Evicted(cache, stored, now))
      /\ pending' = [pending EXCEPT ![c] = @ - 1]
      /\ since_clear' = [since_clear EXCEPT !.completed = @ + 1]
      /\ stats' = NoStats
      /\ UNCHANGED <<now, cache_hits, evals>>

\* The upstream call of a pending call fails: lines 59-70.
\* faulty variant: a failure that takes a miss back
Fail_uncounting(c, failure) ==
  /\ pending[c] > 0
  /\ pending' = [pending EXCEPT ![c] = @ - 1]
  /\ cache_misses' = IF cache_misses > 1 THEN cache_misses - 1 ELSE cache_misses
  /\ ret' = Raised(error_msg(failure))
  /\ stats' = NoStats
  /\ ev' = Event("failed", c.op, KeyOf(c), 0, {})
  /\ UNCHANGED <<now, cache, cache_hits, evals, since_clear>>

\* faulty variant: a failure answered by a second GET of the same call
Fail_retrying(c, failure) ==
  /\ pending[c] > 0
  /\ ret' = NoRet
  /\ stats' = NoStats
  /\ ev' = Event("request", c.op, KeyOf(c), 1, {})
  /\ UNCHANGED <<now, cache, cache_hits, cache_misses, pending, evals, since_clear>>

Fail(c, failure) ==
  /\ pending[c] > 0
  /\ pending' = [pending EXCEPT ![c] = @ - 1]
  /\ ret' = Raised(error_msg(failure))
  /\ stats' = NoStats
  /\ ev' = Event("failed", c.op, KeyOf(c), 0, {})
  /\ UNCHANGED <<now, cache, cache_hits, cache_misses, evals, since_clear>>

\* ------------------------------------------------------------- stats
\* round(hits / total, 3), in thousandths (ties to even)
Round3(hits, total) ==
  LET q == (1000 * hits) \div total
      r == (1000 * hits) % total
  IN  IF 2 * r < total THEN q
      ELSE IF 2 * r > total THEN q + 1
      ELSE q + (q % 2)

get_cache_stats ==
  LET total_requests == cache_hits + cache_misses
      hit_rate == IF total_requests > 0 THEN Round3(cache_hits, total_requests) ELSE 0
  IN  /\ stats' = [taken |-> TRUE,
                   keys |-> TTLCache_len(cache, now),
                   hits |-> cache_hits,
                   misses |-> cache_misses,
                   hit_rate |-> hit_rate,
                   cache_size |-> TTLCache_len(cache, now)]
      /\ ret' = NoRet
      /\ ev' = Event("stats", "get_cache_stats", NoKey, 0, {})
      /\ UNCHANGED <<now, cache, cache_hits, cache_misses, pending, evals, since_clear>>

\* faulty variant: a clear that forgets the miss counter
clear_cache_keeping_misses ==
  /\ cache' = TTLCache_clear(cache)
  /\ cache_hits' = 0
  /\ ret' = NoRet
  /\ stats' = NoStats
  /\ ev' = Event("clear", "clear_cache", NoKey, 0, Evicted(cache, <<>>, now))
  /\ since_clear' = Nothing
  /\ UNCHANGED <<now, cache_misses, pending, evals>>

\* faulty variant: a clear that zeroes the counters and keeps the entries
clear_cache_keeping_entries ==
  /\ cache_hits' = 0
  /\ cache_misses' = 0
  /\ ret' = NoRet
  /\ stats' = NoStats
  /\ ev' = Event("clear", "clear_cache", NoKey, 0, {})
  /\ since_clear' = Nothing
  /\ UNCHANGED <<now, cache, pending, evals>>

clear_cache ==
  /\ cache' = TTLCache_clear(cache)
  /\ cache_hits' = 0
  /\ cache_misses' = 0
  /\ ret' = NoRet
  /\ stats' = NoStats
  /\ ev' = Event("clear", "clear_cache", NoKey, 0, Evicted(cache, <<>>, now))
  /\ since_clear' = Nothing
  /\ UNCHANGED <<now, pending, evals>>

\* ------------------------------------------------------------- clock
Tick ==
  /\ now < MaxTime
  /\ now' = now + 1
  /\ UNCHANGED <<cache, cache_hits, cache_misses, pending, ret, stats, ev, evals, since_clear>>

Next ==
  \/ \E c \in Calls : CacheHit(c)
  \/ \E c \in Calls : CacheMiss(c)
  \/ \E c \in Calls, data \in Bodies : Respond(c, data)
  \/ \E c \in Calls, failure \in Failures : Fail(c, failure)
  \/ get_cache_stats
  \/ clear_cache
  \/ Tick

Spec == Init /\ [][Next]_vars

\* ------------------------------------------------------------- pure functions
\* The parts of the service that compute without reading the service's state,
\* applied to inputs drawn from bounded sets. evals is the sequence of the
\* evaluations made: each records its inputs and what was computed.
ArtCA == Article(<<"a", "B", "a">>, TRUE, <<"c", "a">>)

Articles == {ArtAB, ArtABC, ArtC, ArtBA, ArtCA}

RECURSIVE SeqsUpTo(_, _)
SeqsUpTo(S, n) ==
  IF n = 0 THEN {<<>>}
  ELSE LET shorter == SeqsUpTo(S, n - 1)
       IN  shorter \cup {Append(q, x) : q \in shorter, x \in S}

\* search results: what search_articles returns on a miss
Results ==
  {Annotated(Object(5, articles), FALSE).doc : articles \in SeqsUpTo(Articles, MaxArticles)}

Titles == {Query, <<"A", "B">>}

Authors == {Query, <<"A">>}

Counts == (1..MaxCount) \cup {100}

\* the value of parameter name in a params dict
Get(params, name) ==
  params[CHOOSE i \in 1..Len(params) : params[i][1] = name][2]

\* find_by_title, lines 112-134, on the result of its search_articles call
EvalFindByTitle(result, title, exact) ==
  LET c == [op |-> "find_by_title", text |-> title, count |-> 0, exact |-> exact]
  IN  /\ evals = <<>>
      /\ evals' = <<[fn |-> "find_by_title", result |-> result, title |-> title,
                     exact |-> exact, query |-> Get(Params(c), "q").str,
                     out |-> PostFilter(c, result)]>>
      /\ UNCHANGED <<now, cache, cache_hits, cache_misses, pending, ret, stats, ev, since_clear>>

\* find_by_author, lines 139-158, on the result of its search_articles call
EvalFindByAuthor(result, author, count) ==
  LET c == [op |-> "find_by_author", text |-> author, count |-> count, exact |-> FALSE]
  IN  /\ evals = <<>>
      /\ evals' = <<[fn |-> "find_by_author", result |-> result, author |-> author,
                     count |-> count, query |-> Get(Params(c), "q").str,
                     out |-> PostFilter(c, result)]>>
      /\ UNCHANGED <<now, cache, cache_hits, cache_misses, pending, ret, stats, ev, since_clear>>

\* {**params, name: value}: a new dict, name replaced where it is or added
\* last
Put(params, name, value) ==
  IF \E i \in 1..Len(params) : params[i][1] = name
  THEN [i \in 1..Len(params) |->
          IF params[i][1] = name THEN <<name, value>> ELSE params[i]]
  ELSE Append(params, <<name, value>>)

\* faulty variant: params["apikey"] = api_key, on the caller's dict
params_with_key_in_place(params, api_key) ==
  [dict |-> Put(params, "apikey", PyStr(api_key)), shared |-> TRUE]

\* line 41: {**params, "apikey": self.api_key}; shared tells whether the dict
\* is the caller's own
params_with_key(params, api_key) ==
  [dict |-> Put(params, "apikey", PyStr(api_key)), shared |-> FALSE]

\* the caller's dict after lines 31-48
CallerParams(params, with_key) == IF with_key.shared THEN with_key.dict ELSE params

\* a dict as the set of its items
Items(params) == {params[i] : i \in 1..Len(params)}

\* parameter dicts, in insertion order: two orders of the same items, an int
\* and a str of the same digits, a value that holds quotes, fewer names
QuotedSortby ==
  <<"a", "\"", ",", " ", "\"", "s", "o", "r", "t", "b", "y", "\"", ":", " ", "\"", "b">>

ParamDicts ==
  {<<>>,
   << <<"q", PyStr(<<"a">>)>> >>,
   << <<"q", PyStr(<<"a">>)>>, <<"max", PyInt(1)>> >>,
   << <<"max", PyInt(1)>>, <<"q", PyStr(<<"a">>)>> >>,
   << <<"q", PyStr(<<"a">>)>>, <<"max", PyStr(<<"1">>)>> >>,
   << <<"q", PyStr(<<"a">>)>>, <<"sortby", PyStr(<<"b">>)>> >>,
   << <<"sortby", PyStr(<<"b">>)>>, <<"q", PyStr(<<"a">>)>> >>,
   << <<"q", PyStr(QuotedSortby)>> >>}

Endpoints == {"search", "top-headlines"}

Credentials == {<<"k", "1">>, <<"k", "2">>}

Categories == {None, <<>>, <<"a", "b">>}

\* one derivation of a cache key, lines 25-27
Derivation(endpoint, params) ==
  [endpoint |-> endpoint, params |-> params,
   key_string |-> key_string(endpoint, params),
   cache_key |-> _generate_cache_key(endpoint, params)]

\* _generate_cache_key for two requests, and line 34 for the second on a
\* cache that holds a response stored (line 53) for the first
EvalGenerateCacheKey(endpoint1, params1, endpoint2, params2) ==
  LET a == Derivation(endpoint1, params1)
      b == Derivation(endpoint2, params2)
      stored == TTLCache_setitem(cache, a.cache_key, BodyA, now)
  IN  /\ evals = <<>>
      /\ evals' = <<[fn |-> "_generate_cache_key", a |-> a, b |-> b,
                     found |-> TTLCache_contains(stored, b.cache_key, now)]>>
      /\ UNCHANGED <<now, cache, cache_hits, cache_misses, pending, ret, stats, ev, since_clear>>

\* one run of lines 31-48 of _make_request on a miss: the key, the
\* parameters that go out, and the caller's dict afterwards
Run(endpoint, params, api_key) ==
  LET with_key == params_with_key(params, api_key)
  IN  [api_key |-> api_key,
       cache_key |-> _generate_cache_key(endpoint, params),
       outgoing |-> with_key.dict,
       params_after |-> CallerParams(params, with_key)]

\* the same request in two services that differ in the credential
EvalMakeRequest(endpoint, params, api_key1, api_key2) ==
  /\ evals = <<>>
  /\ evals' = <<[fn |-> "_make_request", endpoint |-> endpoint, params |-> params,
                 a |-> Run(endpoint, params, api_key1),
                 b |-> Run(endpoint, params, api_key2)]>>
  /\ UNCHANGED <<now, cache, cache_hits, cache_misses, pending, ret, stats, ev, since_clear>>

\* get_top_headlines, lines 80-89, up to the request that goes out
EvalGetTopHeadlines(count, category, api_key) ==
  LET params == get_top_headlines_params(count, en, us, category)
  IN  /\ evals = <<>>
      /\ evals' = <<[fn |-> "get_top_headlines", count |-> count,
                     category |-> category, params |-> params,
                     key_string |-> key_string("top-headlines", params),
                     outgoing |-> params_with_key(params, api_key).dict]>>
      /\ UNCHANGED <<now, cache, cache_hits, cache_misses, pending, ret, stats, ev, since_clear>>

PureNext ==
  \/ /\ evals = <<>>
     /\ \E endpoint1 \in Endpoints, params1 \in ParamDicts,
           endpoint2 \in Endpoints, params2 \in ParamDicts :
          EvalGenerateCacheKey(endpoint1, params1, endpoint2, params2)
  \/ /\ evals = <<>>
     /\ \E endpoint \in Endpoints, params \in ParamDicts,
           api_key1 \in Credentials, api_key2 \in Credentials :
          EvalMakeRequest(endpoint, params, api_key1, api_key2)
  \/ /\ evals = <<>>
     /\ \E count \in Counts \cup {150}, category \in Categories, api_key \in Credentials :
          EvalGetTopHeadlines(count, category, api_key)
  \/ /\ evals = <<>>
     /\ \E result \in Results, title \in Titles, exact \in BOOLEAN :
          EvalFindByTitle(result, title, exact)
  \/ /\ evals = <<>>
     /\ \E result \in Results, author \in Authors, count \in Counts :
          EvalFindByAuthor(result, author, count)

PureSpec == Init /\ [][PureNext]_vars

\* ------------------------------------------------------------- properties
\* a request enters _make_request
Start(c) == CacheHit(c) \/ CacheMiss(c)

\* the entries of the cache that hold key k
Holding(c, k) == {i \in 1..Len(c) : c[i].key = k}

\* C1: a call that misses and returns successfully has sent one upstream GET
\* (at its start, none at its return), returns from_cache = false and adds
\* one to the miss counter alone; a call with the same cache key that starts
\* right after that return, before the TTL has elapsed since it, sends no
\* upstream GET, returns from_cache = true and adds one to the hit counter
\* alone.
C1_SecondCallIsServedFromCache ==
  [][ /\ \A c \in Calls :
           (ev'.kind = "request" /\ CacheMiss(c)) =>
             (ev'.sent = 1 /\ pending'[c] = pending[c] + 1)
      /\ \A c \in Calls, data \in Bodies :
           (ev'.kind = "miss" /\ Respond(c, data) /\ ret'.ok) =>
             /\ ev'.sent = 0
             /\ "from_cache" \in ret'.doc.names /\ ret'.doc.from_cache = FALSE
             /\ cache_misses' = cache_misses + 1
             /\ cache_hits' = cache_hits
      /\ \A c \in Calls :
           ( /\ ev.kind = "miss"
             /\ KeyOf(c) = ev.key
             /\ now < Entry(cache, ev.key).inserted + ttl
             /\ Start(c) ) =>
             /\ ev'.kind = "hit" /\ ev'.sent = 0
             /\ pending' = pending
             /\ ret'.ok
             /\ "from_cache" \in ret'.doc.names /\ ret'.doc.from_cache = TRUE
             /\ cache_hits' = cache_hits + 1
             /\ cache_misses' = cache_misses
    ]_vars

\* C1 witness: one miss, then one hit on the key it stored, nothing pending
C1_Witness ==
  /\ ev.kind = "hit" /\ ret.ok /\ ret.doc.from_cache
  /\ cache_hits = 1 /\ cache_misses = 1
  /\ Len(cache) = 1 /\ cache[1].key = ev.key
  /\ InFlight = 0

\* the step ends a pending call c by raising to its caller
Raises(c) == pending'[c] < pending[c] /\ ret'.returned /\ ~ret'.ok

\* C2: a call to _make_request that fails leaves the cache, the hit counter
\* and the miss counter as they were before the call.
C2_FailedCallChangesNothing ==
  [][ \A c \in Calls :
        Raises(c) => /\ cache' = cache
                     /\ cache_hits' = cache_hits
                     /\ cache_misses' = cache_misses
    ]_vars

\* C3: a call whose key has an entry with now - inserted >= ttl is a miss,
\* whether or not the entry is still held (nothing sweeps it): the call sends
\* an upstream GET and leaves the counters alone, and its successful return
\* has from_cache = false and adds one to the miss counter.
C3_ExpiredEntryIsAMiss ==
  [][ /\ \A c \in Calls :
           ( /\ HasKey(cache, KeyOf(c))
             /\ now - Entry(cache, KeyOf(c)).inserted >= ttl
             /\ Start(c) ) =>
             /\ ev'.kind = "request" /\ ev'.sent = 1
             /\ pending'[c] = pending[c] + 1
             /\ cache' = cache
             /\ cache_hits' = cache_hits /\ cache_misses' = cache_misses
      /\ \A c \in Calls, data \in Bodies :
           (ev'.kind = "miss" /\ Respond(c, data) /\ ret'.ok) =>
             /\ ret'.doc.from_cache = FALSE
             /\ cache_misses' = cache_misses + 1
             /\ Entry(cache', KeyOf(c)).inserted = now
    ]_vars

\* C3 witness: a request is under way for a key whose expired entry the cache
\* still holds, exactly ttl after its insertion
C3_Witness ==
  /\ ev.kind = "request"
  /\ HasKey(cache, ev.key)
  /\ now - Entry(cache, ev.key).inserted = ttl
  /\ \E c \in Calls : pending[c] > 0 /\ KeyOf(c) = ev.key

\* C4: a hit never moves an entry's expiry: it happens before inserted + ttl
\* and leaves the entry's expires and inserted as they were, so an entry is
\* never found at or after inserted + ttl however often it was hit.
C4_HitsDoNotExtendLifetime ==
  [][ \A c \in Calls :
        (ev'.kind \in {"hit", "hit_raised"} /\ CacheHit(c)) =>
          LET k == KeyOf(c)
          IN  /\ now < Entry(cache, k).inserted + ttl
              /\ HasKey(cache', k)
              /\ Entry(cache', k).expires = Entry(cache, k).expires
              /\ Entry(cache', k).inserted = Entry(cache, k).inserted
              /\ Entry(cache', k).expires = Entry(cache', k).inserted + ttl
    ]_vars

\* C4 witness: an entry was hit later than it was inserted
C4_Witness ==
  /\ ev.kind = "hit" /\ cache_hits = MaxHits /\ cache_misses = 1
  /\ HasKey(cache, ev.key)
  /\ Entry(cache, ev.key).used > Entry(cache, ev.key).inserted

\* the entries of cache c2 other than the one of key k
Others(c2, k) == {i \in 1..Len(c2) : c2[i].key # k}

\* C5 as stated: when a successful miss pushes an entry out of the full cache
\* (here: a cache that successful calls filled), none of the entries that stay
\* was inserted before it.
C5_EvictsEarliestInserted ==
  [][ \A c \in Calls, data \in Bodies :
        (Respond(c, data) /\ ret'.ok /\ \A i \in 1..Len(cache) : cache[i].value.is_object) =>
          \A k \in ev'.evicted : \A i \in Others(cache', KeyOf(c)) :
            Entry(cache, k).inserted <= cache'[i].inserted
    ]_vars

\* C5 amended: when a successful miss pushes an entry out of the full cache,
\* none of the entries that stay was used (inserted or read by a hit) before
\* the last use of the one pushed out: eviction follows the order of use.
C5_EvictsLeastRecentlyUsed ==
  [][ \A c \in Calls, data \in Bodies :
        (ev'.kind = "miss" /\ Respond(c, data) /\ ret'.ok) =>
          /\ Cardinality(ev'.evicted) <= 1
          /\ \A k \in ev'.evicted :
               /\ TTLCache_len(cache, now) = maxsize
               /\ ~TTLCache_contains(cache, KeyOf(c), now)
               /\ \A i \in Others(cache', KeyOf(c)) :
                    /\ Entry(cache, k).used <= cache'[i].used
                    /\ cache'[i] = Entry(cache, cache'[i].key)
    ]_vars

\* C5 witness: a miss pushed out an entry; the one that stays was read by a
\* hit after its insertion
C5_Witness ==
  /\ ev.kind = "miss" /\ ev.evicted # {}
  /\ Len(cache) = maxsize
  /\ cache[1].used > cache[1].inserted
  /\ cache_hits >= 1

\* C6: the cache never holds more than maxsize entries, and get_cache_stats
\* never reports more (keys, cache_size).
C6_SizeWithinMaximum ==
  /\ Len(cache) <= maxsize
  /\ TTLCache_len(cache, now) <= maxsize
  /\ stats.taken => (stats.keys <= maxsize /\ stats.cache_size <= maxsize)

\* C6 witness: a miss stored a key in the full cache, which pushed an entry
\* out and left the cache full
C6_Witness ==
  /\ ev.kind = "miss" /\ ev.evicted # {}
  /\ cache_misses = maxsize + 1
  /\ Len(cache) = maxsize /\ TTLCache_len(cache, now) = maxsize

\* the step ends a pending call c
Completes(c) == pending'[c] < pending[c]

\* another call is pending on the key of the pending call c
Racing(c) ==
  \/ pending[c] > 1
  \/ \E c2 \in Calls \ {c} : pending[c2] > 0 /\ KeyOf(c2) = KeyOf(c)

\* C7: when one of several calls pending on a key completes, the cache holds
\* at most one entry of the key; a 2xx body leaves it as the value of that
\* entry (the last to complete wins); a call that returns returns the whole
\* document of its own response; and hits + misses grows by one when the call
\* completed successfully and not at all when it failed.
C7_PendingCallsOnOneKey ==
  [][ \A c \in Calls :
        (Completes(c) /\ Racing(c)) =>
          LET k == KeyOf(c)
          IN  /\ Cardinality(Holding(cache', k)) <= 1
              /\ \A data \in Bodies :
                   Respond(c, data) =>
                     /\ HasKey(cache', k) /\ Entry(cache', k).value = data
                     /\ ret'.ok =>
                          ret'.doc = PostFilter(c, Annotated(data, FALSE).doc)
              /\ (cache_hits' + cache_misses') - (cache_hits + cache_misses)
                   = IF ret'.ok THEN 1 ELSE 0
    ]_vars

ZeroStats ==
  [taken |-> TRUE, keys |-> 0, hits |-> 0, misses |-> 0, hit_rate |-> 0, cache_size |-> 0]

\* C8: the step clear_cache leaves hits = 0, misses = 0 and no cache entry,
\* and a get_cache_stats that directly follows it reports zeros throughout.
C8_ClearResetsEverything ==
  [][ /\ ev'.kind = "clear" =>
           /\ cache_hits' = 0 /\ cache_misses' = 0
           /\ Len(cache') = 0 /\ TTLCache_len(cache', now') = 0
      /\ (ev.kind = "clear" /\ ev'.kind = "stats") => stats' = ZeroStats
    ]_vars

\* C8 witness: get_cache_stats reported zeros directly after a clear_cache,
\* while a request sent before the clear is still pending
C8_Witness ==
  /\ ev.kind = "stats" /\ ev.after_clear
  /\ stats = ZeroStats
  /\ InFlight > 0

\* C9: a step that lowers the hit or the miss counter is clear_cache, which
\* zeroes both and empties the cache; every other step leaves each counter as
\* it is or adds one to it.
C9_CountersOnlyGrowUntilClear ==
  [][ /\ (cache_hits' < cache_hits \/ cache_misses' < cache_misses) =>
           /\ ev'.kind = "clear"
           /\ cache_hits' = 0 /\ cache_misses' = 0 /\ cache' = <<>>
      /\ ev'.kind # "clear" =>
           /\ cache_hits' \in {cache_hits, cache_hits + 1}
           /\ cache_misses' \in {cache_misses, cache_misses + 1}
    ]_vars

\* C9 witness: clear_cache has just emptied a cache that held entries
C9_Witness ==
  /\ ev.kind = "clear" /\ ev.evicted # {}
  /\ cache_hits = 0 /\ cache_misses = 0 /\ cache = <<>>

\* C10: every value the cache holds is the upstream body as it was received,
\* without a from_cache member; and a call on the key of a find_by_title or
\* find_by_author that has just returned is a hit whose result is computed
\* from the whole body: all its articles, its own totalArticles.
C10_CacheHoldsRawResponse ==
  /\ [](\A i \in 1..Len(cache) :
          /\ cache[i].value = cache[i].raw
          /\ cache[i].raw \in Bodies
          /\ "from_cache" \notin cache[i].value.names)
  /\ [][ \A c \in Calls :
           ( /\ ev.kind \in {"hit", "miss"}
             /\ ev.op \in {"find_by_title", "find_by_author"}
             /\ KeyOf(c) = ev.key
             /\ now < Entry(cache, ev.key).expires
             /\ Start(c) ) =>
             LET raw == Entry(cache, ev.key).raw
             IN  /\ ev'.kind = "hit"
                 /\ ret'.doc = PostFilter(c, [raw EXCEPT !.names = @ \cup {"from_cache"},
                                                         !.from_cache = TRUE])
                 /\ c.op = "search_articles" =>
                      /\ ret'.doc.articles = raw.articles
                      /\ ret'.doc.totalArticles = raw.totalArticles
       ]_vars

\* C10 witness: search_articles is served from the entry that a find_by_title
\* filled, and gets more articles than the filter of find_by_title lets through
C10_Witness ==
  /\ ev.kind = "hit" /\ ev.op = "search_articles"
  /\ cache_hits = 1 /\ cache_misses = 1
  /\ Len(cache) = 1 /\ cache[1].key = ev.key /\ cache[1].value = BodyA
  /\ ret.ok /\ ret.doc.articles = BodyA.articles /\ ret.doc.totalArticles = 5
  /\ Len(find_by_title_filter(BodyA, Query, FALSE).articles) < Len(ret.doc.articles)
  /\ ev.key = KeyOf([op |-> "find_by_title", text |-> Query, count |-> 0, exact |-> FALSE])

\* C11: a call that fails on a non-2xx status raises an error whose message
\* holds the status code and, when the body is a JSON object with a message
\* member, that message; when the body is not valid JSON, the status code and
\* "Unknown error".
C11_UpstreamErrorCarriesStatusAndMessage ==
  [][ \A c \in Calls, failure \in Failures :
        (Fail(c, failure) /\ failure.kind = "HTTPStatusError") =>
          LET status == Join(Digits(failure.status_code))
          IN  /\ (failure.body.is_json /\ failure.body.has_message) =>
                   ret'.error = "GNews API Error: " \o status \o " - " \o failure.body.message
              /\ ~failure.body.is_json =>
                   ret'.error = "GNews API Error: " \o status \o " - Unknown error"
    ]_vars

\* the calls of the operation that the step st is about
CallsOf(st) == {c \in Calls : c.op = st.op}

\* C12: a call sends at most one upstream GET. A hit sends none and returns
\* at once; a miss sends exactly one and waits; the step that ends a pending
\* call, with the response or with a failure, sends no further GET, ends that
\* one call, and on a failure raises the failure's error to the caller.
C12_AtMostOneUpstreamRequest ==
  [][ /\ ev'.sent \in {0, 1}
      /\ (ev' # ev /\ ev'.sent = 1) => pending' # pending
      /\ cache_hits' > cache_hits =>
           /\ ev'.kind \in {"hit", "hit_raised"} /\ ev'.sent = 0
           /\ pending' = pending /\ ret'.returned
      /\ pending' # pending =>
           \E c \in CallsOf(ev') :
             \/ /\ pending' = [pending EXCEPT ![c] = @ + 1]
                /\ ~TTLCache_contains(cache, KeyOf(c), now)
                /\ ev'.kind = "request" /\ ev'.sent = 1 /\ ~ret'.returned
             \/ /\ pending' = [pending EXCEPT ![c] = @ - 1]
                /\ ev'.kind \in {"miss", "miss_raised", "failed"}
                /\ ev'.sent = 0 /\ ret'.returned
                /\ ev'.kind = "failed" =>
                     /\ ~ret'.ok
                     /\ \E failure \in Failures : ret'.error = error_msg(failure)
    ]_vars

\* C12 witness: the one request of a call failed, the failure was raised, and
\* nothing is pending
C12_Witness ==
  /\ ev.kind = "failed" /\ ev.sent = 0
  /\ ret.returned /\ ~ret.ok
  /\ InFlight = 0
  /\ cache = <<>> /\ cache_misses = 0

\* the articles of seq that satisfy Test, in their order
Matching(seq, Test(_)) == SelectSeq(seq, Test)

\* C13: for a count in 1..100, find_by_author returns the first
\* min(count, m) of the m articles that have a source name containing the
\* author case-insensitively, in their original order; an article without a
\* source name is never returned; totalArticles is the number returned.
C13_FindByAuthorReturnsFirstMatches ==
  \A i \in 1..Len(evals) :
    (evals[i].fn = "find_by_author" /\ evals[i].count \in 1..100) =>
      LET e == evals[i]
          HasAuthor(a) ==
            /\ a.has_source /\ a.name # None
            /\ In(lower(e.author), lower(a.name))
          matches == Matching(e.result.articles, HasAuthor)
          m == Len(matches)
      IN  /\ e.out.articles = SubSeq(matches, 1, Min(e.count, m))
          /\ \A j \in 1..Len(e.out.articles) :
               e.out.articles[j].has_source /\ e.out.articles[j].name # None
          /\ "totalArticles" \in e.out.names
          /\ e.out.totalArticles = Len(e.out.articles)

\* C13 witness: three articles match, one of them after an article without a
\* source name, and count 2 cuts the result to the first two
C13_Witness ==
  /\ Len(evals) = 1 /\ evals[1].fn = "find_by_author"
  /\ evals[1].author = Query /\ evals[1].count = 2
  /\ evals[1].result.articles = <<ArtBA, ArtC, ArtAB, ArtBA>>
  /\ evals[1].out.articles = <<ArtBA, ArtAB>>
  /\ evals[1].out.totalArticles = 2

\* C14: find_by_title returns, in their original order, exactly the articles
\* whose title equals the title asked for (exact) or contains it (not exact),
\* case-insensitively; totalArticles is the number returned; the query sent
\* upstream is the title in double quotes when exact, the bare title otherwise.
C14_FindByTitleFiltersAndQuotes ==
  \A i \in 1..Len(evals) :
    evals[i].fn = "find_by_title" =>
      LET e == evals[i]
          HasTitle(a) ==
            IF e.exact THEN lower(a.title) = lower(e.title)
            ELSE In(lower(e.title), lower(a.title))
      IN  /\ e.out.articles = Matching(e.result.articles, HasTitle)
          /\ "totalArticles" \in e.out.names
          /\ e.out.totalArticles = Len(e.out.articles)
          /\ e.exact => e.query = <<"\"">> \o e.title \o <<"\"">>
          /\ ~e.exact => e.query = e.title

\* C14 witness: an exact search for "AB" keeps the one article titled "Ab" and
\* drops those that only contain it
C14_Witness ==
  /\ Len(evals) = 1 /\ evals[1].fn = "find_by_title"
  /\ evals[1].exact /\ evals[1].title = <<"A", "B">>
  /\ evals[1].result.articles = <<ArtABC, ArtAB, ArtCA>>
  /\ evals[1].out.articles = <<ArtAB>>
  /\ evals[1].out.totalArticles = 1
  /\ evals[1].query = <<"\"", "A", "B", "\"">>

\* C15: two parameter dicts that hold the same items in different insertion
\* orders, with the same endpoint, get the same cache key (and the same
\* string hashed); the second request finds what was stored for the first.
C15_KeyIgnoresInsertionOrder ==
  \A i \in 1..Len(evals) :
    evals[i].fn = "_generate_cache_key" =>
      LET a == evals[i].a
          b == evals[i].b
      IN  (a.endpoint = b.endpoint /\ Items(a.params) = Items(b.params)) =>
            /\ a.cache_key = b.cache_key
            /\ a.key_string = b.key_string
            /\ evals[i].found

\* C15 witness: {q, max} inserted in the two orders gave one key
C15_Witness ==
  /\ Len(evals) = 1 /\ evals[1].fn = "_generate_cache_key"
  /\ evals[1].a.endpoint = "search" /\ evals[1].b.endpoint = "search"
  /\ evals[1].a.params = << <<"q", PyStr(<<"a">>)>>, <<"max", PyInt(1)>> >>
  /\ evals[1].b.params = << <<"max", PyInt(1)>>, <<"q", PyStr(<<"a">>)>> >>
  /\ evals[1].a.cache_key = evals[1].b.cache_key
  /\ evals[1].a.key_string = "search_{\"max\": 1, \"q\": \"a\"}"

\* C16: two requests that differ in the endpoint, in a parameter's value or
\* in the parameter names get different strings to hash and different cache
\* keys, and the second does not find what was stored for the first.
C16_DifferentRequestsDifferentKeys ==
  \A i \in 1..Len(evals) :
    evals[i].fn = "_generate_cache_key" =>
      LET a == evals[i].a
          b == evals[i].b
      IN  (a.endpoint # b.endpoint \/ Items(a.params) # Items(b.params)) =>
            /\ a.key_string # b.key_string
            /\ a.cache_key # b.cache_key
            /\ ~evals[i].found

\* C16 witness: a query that holds the text of a second member, against the
\* dict that has that member; the strings differ by the escapes
C16_Witness ==
  /\ Len(evals) = 1 /\ evals[1].fn = "_generate_cache_key"
  /\ evals[1].a.endpoint = "search" /\ evals[1].b.endpoint = "search"
  /\ evals[1].a.params = << <<"q", PyStr(QuotedSortby)>> >>
  /\ evals[1].b.params = << <<"q", PyStr(<<"a">>)>>, <<"sortby", PyStr(<<"b">>)>> >>
  /\ evals[1].a.key_string = "search_{\"q\": \"a\\\", \\\"sortby\\\": \\\"b\"}"
  /\ evals[1].b.key_string = "search_{\"q\": \"a\", \"sortby\": \"b\"}"
  /\ ~evals[1].found

\* C17: the credential is in the parameters that go out and nowhere else:
\* the cache key is that of the caller's parameters, the caller's dict is as
\* it was, and two services that differ in the credential derive one key.
C17_CredentialOnlyInOutgoingParams ==
  \A i \in 1..Len(evals) :
    evals[i].fn = "_make_request" =>
      LET e == evals[i]
      IN  /\ \A r \in {e.a, e.b} :
               /\ <<"apikey", PyStr(r.api_key)>> \in Items(r.outgoing)
               /\ Items(r.outgoing) \ {<<"apikey", PyStr(r.api_key)>>} = Items(e.params)
               /\ r.params_after = e.params
               /\ r.cache_key = _generate_cache_key(e.endpoint, e.params)
          /\ e.a.cache_key = e.b.cache_key

\* C17 witness: one request under two credentials: the outgoing parameters
\* differ, the key is the same
C17_Witness ==
  /\ Len(evals) = 1 /\ evals[1].fn = "_make_request"
  /\ evals[1].params # <<>>
  /\ evals[1].a.api_key # evals[1].b.api_key
  /\ evals[1].a.outgoing # evals[1].b.outgoing
  /\ evals[1].a.cache_key = evals[1].b.cache_key

\* C18: get_top_headlines builds max = min(count, 100), country and lang, and
\* a category only when one is given; without one (None, or the empty
\* string) no category is among the parameters, the outgoing parameters or
\* the parameters the cache key is derived from.
C18_CategoryOnlyWhenProvided ==
  \A i \in 1..Len(evals) :
    evals[i].fn = "get_top_headlines" =>
      LET e == evals[i]
          base == {<<"max", PyInt(IF e.count < 100 THEN e.count ELSE 100)>>,
                   <<"country", PyStr(us)>>, <<"lang", PyStr(en)>>}
          provided == e.category # None /\ e.category # <<>>
          Names(d) == {d[j][1] : j \in 1..Len(d)}
      IN  /\ provided =>
               /\ Items(e.params) = base \cup {<<"category", PyStr(e.category)>>}
               /\ <<"category", PyStr(e.category)>> \in Items(e.outgoing)
          /\ ~provided =>
               /\ Items(e.params) = base
               /\ "category" \notin Names(e.params)
               /\ "category" \notin Names(e.outgoing)
               /\ e.key_string = key_string("top-headlines",
                                             << <<"max", PyInt(IF e.count < 100 THEN e.count ELSE 100)>>,
                                                <<"country", PyStr(us)>>, <<"lang", PyStr(en)>> >>)

\* C18 witness: no category and a count above the limit
C18_Witness ==
  /\ Len(evals) = 1 /\ evals[1].fn = "get_top_headlines"
  /\ evals[1].category = None /\ evals[1].count = 150
  /\ evals[1].key_string = "top-headlines_{\"country\": \"us\", \"lang\": \"en\", \"max\": 100}"
  /\ Len(evals[1].outgoing) = 4

\* C19: in every state the miss counter is the number of upstream calls that
\* completed successfully since the last clear_cache, and the hit counter is
\* the number of responses returned with from_cache = true since then.
C19_CountersMatchHistory ==
  /\ cache_misses = since_clear.completed
  /\ cache_hits = since_clear.from_cache_true

\* C20: the cache never holds more entries than the miss counter counts, and
\* no get_cache_stats snapshot reports more keys than misses; a step that
\* adds an entry or replaces one adds one to the miss counter; clear_cache
\* leaves both at zero, and a request pending across it then stores one
\* entry and counts one miss.
C20_KeysAtMostMisses ==
  /\ [](/\ Len(cache) <= cache_misses
        /\ TTLCache_len(cache, now) <= cache_misses
        /\ stats.taken => (stats.keys <= stats.misses /\ stats.cache_size <= stats.misses))
  /\ [][ /\ (\E i \in 1..Len(cache') :
               \/ ~HasKey(cache, cache'[i].key)
               \/ Entry(cache, cache'[i].key).value # cache'[i].value
               \/ Entry(cache, cache'[i].key).expires # cache'[i].expires) =>
              cache_misses' = cache_misses + 1
         /\ Len(cache') > Len(cache) => cache_misses' = cache_misses + 1
         /\ ev'.kind = "clear" => (Len(cache') = 0 /\ cache_misses' = 0)
         /\ (ev.kind = "clear" /\ ev'.kind \in {"miss", "miss_raised"}) =>
              (Len(cache') = 1 /\ cache_misses' = 1)
       ]_vars

\* C20 witness: a request that was pending during a clear_cache of a filled
\* cache has completed right after it; one entry, one miss
C20_Witness ==
  /\ ev.kind = "miss" /\ ev.after_clear
  /\ Len(cache) = 1 /\ cache_misses = 1 /\ cache_hits = 0
  /\ since_clear.completed = 1

====
